---- MODULE Spec2Model ----
(***************************************************************************)
(* Model of the ProductSearch controller (class ProductSearch, the second  *)
(* copy in src/unnamed/part_000, lines 243-656; src/script.js is the same  *)
(* controller without sorting).                                            *)
(*                                                                         *)
(* Strings the code inspects (the query, the catalog texts it renders)    *)
(* are sequences of one-character strings; prices are integers, ratings    *)
(* are tenths (4.2 is 42).                                                 *)
(***************************************************************************)
EXTENDS Integers, Sequences, FiniteSets, TLC

VARIABLES
    errorMessageText,   \* this.errorMessage.textContent
    errorMessageShow,   \* 'show' on errorMessage and 'error' on searchInput
    inputFocused,       \* searchInput has the focus
    loadingHidden,      \* loadingSpinner has class 'hidden'
    headerHidden,       \* resultsHeader has class 'hidden'
    noResultsHidden,    \* noResults has class 'hidden'
    errorHidden,        \* errorContainer has class 'hidden'
    resultsTitle,       \* resultsTitle.textContent
    resultsCount,       \* resultsCount.textContent
    errorText,          \* errorText.textContent
    productGrid,        \* the cards of productGrid, in order (one per product)
    sortSelect,         \* sortSelect.value
    currentSearchTerm,  \* this.currentSearchTerm
    currentProducts,    \* this.currentProducts
    productModal,       \* the detail view: productModal and the modal* elements
    pending             \* the suspended handleSearch calls, in order of issue

vars == <<errorMessageText, errorMessageShow, inputFocused, loadingHidden,
          headerHidden, noResultsHidden, errorHidden, resultsTitle,
          resultsCount, errorText, productGrid, sortSelect,
          currentSearchTerm, currentProducts, productModal, pending>>

----------------------------------------------------------------------------
(* Bounds                                                                  *)

\* longest raw query typed into the search box
MaxLen == 3
\* most handleSearch calls suspended on the network at once
MaxPending == 2
\* longest product list of the sorter's specification
MaxProducts == 3
\* longest text of a catalog field in the renderer's specification
MaxText == 2

----------------------------------------------------------------------------
(* Inputs                                                                  *)

Whitespace == {" "}
Alphabet == {" ", "a"}

RECURSIVE StringsUpTo(_)
StringsUpTo(n) ==
    IF n = 0 THEN {<<>>}
    ELSE LET shorter == StringsUpTo(n - 1)
         IN  shorter \cup {Append(s, c) : s \in shorter, c \in Alphabet}

\* what the user may have typed when a submit fires
RawQueries == StringsUpTo(MaxLen)

\* rating of a product whose record has no rating field
Absent == -1

Products ==
    { [id |-> 1, title |-> "A", price |-> 10, rating |-> 42],
      [id |-> 2, title |-> "B", price |-> 5,  rating |-> 48],
      [id |-> 3, title |-> "C", price |-> 10, rating |-> Absent],
      [id |-> 4, title |-> "D", price |-> 5,  rating |-> 0] }

ProductById(i) == CHOOSE p \in Products : p.id = i

RECURSIVE ListsUpTo(_)
\* the product lists without repetition of at most n products
ListsUpTo(n) ==
    IF n = 0 THEN {<<>>}
    ELSE LET shorter == ListsUpTo(n - 1)
         IN  shorter \cup
             UNION { {Append(s, p) : p \in {q \in Products :
                                               \A i \in 1..Len(s) : s[i] # q}}
                     : s \in shorter }

\* the parsed response bodies the catalog answers with in the controller's runs
Bodies ==
    { [hasProducts |-> FALSE, products |-> <<>>, total |-> 0],
      [hasProducts |-> TRUE,  products |-> <<>>, total |-> 0],
      [hasProducts |-> TRUE,
       products |-> <<ProductById(1), ProductById(2)>>, total |-> 2],
      [hasProducts |-> TRUE,
       products |-> <<ProductById(3), ProductById(2), ProductById(1)>>,
       total |-> 3] }

NoData == [hasProducts |-> FALSE, products |-> <<>>, total |-> 0]

\* the ways a request settles: fetch rejects, or it resolves with a status
\* and a body that response.json() parses or rejects
Responses ==
    { [rejected |-> TRUE, status |-> 0, parsable |-> FALSE, data |-> NoData] }
    \cup { [rejected |-> FALSE, status |-> s, parsable |-> FALSE, data |-> NoData]
           : s \in {200, 404, 500} }
    \cup { [rejected |-> FALSE, status |-> 200, parsable |-> TRUE, data |-> d]
           : d \in Bodies }

Succeeded(response) ==
    ~response.rejected /\ response.status = 200 /\ response.parsable

\* the raw queries submitted in the controller's runs
Typed ==
    { <<>>, <<" ">>, <<"a">>, <<" ", "a", " ">>,
      <<"a", "b">>, <<" ", "a", "b", " ">>, <<"c", " ", "d">> }

SortOrders == {"relevance", "price-low", "price-high", "rating"}

\* the characters that are markup when they reach innerHTML unescaped
MarkupChars == {"<", ">", "&"}
TextAlphabet == MarkupChars \cup {"a"}

\* the texts a catalog field may hold; the empty text also stands for a
\* field the record does not have (both are falsy where the code tests them)
CatalogTexts == UNION { [1..n -> TextAlphabet] : n \in 0..MaxText }

\* the length of the star string (the 5 of generateStars)
StarCount == 5
\* the ratings 0.0, 0.1, ..., 5.0, in tenths
Ratings == 0..(StarCount * 10)

\* a catalog record with every field the renderer reads. An optional array
\* or object is <<>> when the record lacks it and <<value>> when it has it;
\* an optional number is 0 when the record lacks it
CatalogProduct(title, text, rating, complete) ==
    [ id          |-> 1,
      title       |-> title,
      description |-> text,
      thumbnail   |-> text,
      images      |-> IF complete THEN << <<text, <<"a">> >> >> ELSE <<>>,
      price       |-> 10,
      rating      |-> rating,
      sku         |-> text,
      weight      |-> IF complete THEN 2 ELSE 0,
      dimensions  |-> IF complete
                      THEN << [width |-> 1, height |-> 2, depth |-> 3] >>
                      ELSE <<>>,
      warrantyInformation  |-> text,
      shippingInformation  |-> text,
      returnPolicy         |-> text,
      minimumOrderQuantity |-> IF complete THEN 1 ELSE 0,
      reviews     |-> IF complete
                      THEN << [reviewerName |-> text, rating |-> rating,
                               comment |-> text, date |-> 1] >>
                      ELSE <<>> ]

\* the products of the renderer's specification: every text in the title
\* and the other text fields with one rating, every rating with one text,
\* and a record with no rating
RenderedProducts ==
    { CatalogProduct(x, x, 35, complete) :
          x \in CatalogTexts, complete \in BOOLEAN }
    \cup { CatalogProduct(<<"a">>, <<>>, r, complete) :
              r \in Ratings \cup {Absent}, complete \in BOOLEAN }

----------------------------------------------------------------------------
(* String.prototype.trim                                                   *)

RECURSIVE trimStart(_)
trimStart(str) ==
    IF str # <<>> /\ Head(str) \in Whitespace THEN trimStart(Tail(str)) ELSE str

RECURSIVE trimEnd(_)
trimEnd(str) ==
    IF str # <<>> /\ str[Len(str)] \in Whitespace
    THEN trimEnd(SubSeq(str, 1, Len(str) - 1))
    ELSE str

trim(str) == trimEnd(trimStart(str))

----------------------------------------------------------------------------
(* The controller's fields and the document, as one record                 *)

State ==
    [ errorMessageText  |-> errorMessageText,
      errorMessageShow  |-> errorMessageShow,
      inputFocused      |-> inputFocused,
      loadingHidden     |-> loadingHidden,
      headerHidden      |-> headerHidden,
      noResultsHidden   |-> noResultsHidden,
      errorHidden       |-> errorHidden,
      resultsTitle      |-> resultsTitle,
      resultsCount      |-> resultsCount,
      errorText         |-> errorText,
      productGrid       |-> productGrid,
      sortSelect        |-> sortSelect,
      currentSearchTerm |-> currentSearchTerm,
      currentProducts   |-> currentProducts,
      productModal      |-> productModal ]

Becomes(st) ==
    /\ errorMessageText'  = st.errorMessageText
    /\ errorMessageShow'  = st.errorMessageShow
    /\ inputFocused'      = st.inputFocused
    /\ loadingHidden'     = st.loadingHidden
    /\ headerHidden'      = st.headerHidden
    /\ noResultsHidden'   = st.noResultsHidden
    /\ errorHidden'       = st.errorHidden
    /\ resultsTitle'      = st.resultsTitle
    /\ resultsCount'      = st.resultsCount
    /\ errorText'         = st.errorText
    /\ productGrid'       = st.productGrid
    /\ sortSelect'        = st.sortSelect
    /\ currentSearchTerm' = st.currentSearchTerm
    /\ currentProducts'   = st.currentProducts
    /\ productModal'      = st.productModal

\* the page as loaded: every section hidden, the selector on its first option
Document0 ==
    [ errorMessageText  |-> "",
      errorMessageShow  |-> FALSE,
      inputFocused      |-> FALSE,
      loadingHidden     |-> TRUE,
      headerHidden      |-> TRUE,
      noResultsHidden   |-> TRUE,
      errorHidden       |-> TRUE,
      resultsTitle      |-> <<>>,
      resultsCount      |-> <<>>,
      errorText         |-> <<>>,
      productGrid       |-> <<>>,
      sortSelect        |-> "relevance",
      productModal      |-> [ hidden         |-> TRUE,
                              title          |-> <<>>,
                              description    |-> <<>>,
                              ratingStars    |-> <<>>,
                              rating         |-> <<>>,
                              reviewCount    |-> 0,
                              mainImage      |-> <<>>,
                              activeThumbnail |-> 0,
                              pageScrollLocked |-> FALSE,
                              thumbnails     |-> <<>>,
                              specifications |-> <<>>,
                              reviews        |-> <<>> ] ]

\* constructor: currentSearchTerm = '', currentProducts = []
Constructed ==
    [ f \in DOMAIN Document0 \cup {"currentSearchTerm", "currentProducts"} |->
        IF f \in DOMAIN Document0 THEN Document0[f] ELSE <<>> ]

----------------------------------------------------------------------------
(* Messages                                                                *)

EmptyQueryMessage == "Please enter a product name to search"
TooShortMessage == "Search term must be at least 2 characters long"

StatusText(status) ==
    CASE status = 200 -> "OK"
      [] status = 404 -> "Not Found"
      [] status = 500 -> "Internal Server Error"
      [] OTHER -> ""

\* `Failed to fetch products: ${response.status} ${response.statusText}`
HttpErrorMessage(status) ==
    <<"Failed to fetch products: ", ToString(status), " ", StatusText(status)>>

\* message of the TypeError fetch rejects with
TransportErrorMessage == <<"Failed to fetch">>
\* message of the SyntaxError response.json() rejects with
ParseErrorMessage == <<"Unexpected token in JSON">>

----------------------------------------------------------------------------
(* Methods of ProductSearch                                                *)

showError(st, message) ==
    [st EXCEPT !.errorMessageText = message,
               !.errorMessageShow = TRUE,
               !.inputFocused = TRUE]

\* validateSearchInput with the length test off by one
validateSearchInput_OffByOne(st, searchTerm) ==
    LET trimmedTerm == trim(searchTerm)
    IN  IF trimmedTerm = <<>>
        THEN [valid |-> FALSE, state |-> showError(st, EmptyQueryMessage)]
        ELSE IF Len(trimmedTerm) <= 2
        THEN [valid |-> FALSE, state |-> showError(st, TooShortMessage)]
        ELSE [valid |-> TRUE, state |-> st]

\* returns the verdict and the state its showError call leaves
validateSearchInput(st, searchTerm) ==
    LET trimmedTerm == trim(searchTerm)
    IN  IF trimmedTerm = <<>>
        THEN [valid |-> FALSE, state |-> showError(st, EmptyQueryMessage)]
        ELSE IF Len(trimmedTerm) < 2
        THEN [valid |-> FALSE, state |-> showError(st, TooShortMessage)]
        ELSE [valid |-> TRUE, state |-> st]

clearError(st) == [st EXCEPT !.errorMessageShow = FALSE]

hideAllSections(st) ==
    [st EXCEPT !.loadingHidden = TRUE,
               !.headerHidden = TRUE,
               !.productGrid = <<>>,
               !.noResultsHidden = TRUE,
               !.errorHidden = TRUE,
               !.sortSelect = "relevance"]

showLoading(st) == [hideAllSections(st) EXCEPT !.loadingHidden = FALSE]

hideLoading(st) == [st EXCEPT !.loadingHidden = TRUE]

\* one card per product, in the order given
renderProducts(st, products) == [st EXCEPT !.productGrid = products]

\* showResults naming the query of the latest submit in the title
showResults_TitlesCurrentQuery(st, products, searchTerm, total) ==
    renderProducts(
        [st EXCEPT !.headerHidden = FALSE,
                   !.resultsTitle = <<"Search Results for ", st.currentSearchTerm>>,
                   !.resultsCount =
                       <<"Found ", total,
                         IF total # 1 THEN " products" ELSE " product">>],
        products)

showResults(st, products, searchTerm, total) ==
    renderProducts(
        [st EXCEPT !.headerHidden = FALSE,
                   !.resultsTitle = <<"Search Results for ", searchTerm>>,
                   !.resultsCount =
                       <<"Found ", total,
                         IF total # 1 THEN " products" ELSE " product">>],
        products)

showNoResults(st) == [hideLoading(st) EXCEPT !.noResultsHidden = FALSE]

\* showErrorState without its hideLoading call
showErrorState_KeepsLoading(st, message) ==
    [st EXCEPT !.errorText = message, !.errorHidden = FALSE]

showErrorState(st, message) ==
    [hideLoading(st) EXCEPT !.errorText = message, !.errorHidden = FALSE]

displayResults(st, data, searchTerm) ==
    LET s1 == hideLoading(st)
    IN  IF ~data.hasProducts \/ Len(data.products) = 0
        THEN showNoResults(s1)
        ELSE LET s2 == [s1 EXCEPT !.currentProducts = data.products]
             IN  showResults(s2, s2.currentProducts, searchTerm, data.total)

\* this.usdToInrRate (83.5), in tenths
usdToInrRate == 835

convertToRupees(usdPrice) == usdPrice * usdToInrRate

\* the rating comparator without its `|| 0`
ratingOrZero_Raw(product) == product.rating

\* b.rating || 0
ratingOrZero(product) == IF product.rating = Absent THEN 0 ELSE product.rating

\* the comparator sortProducts hands to Array.prototype.sort
compareFn(sortType, a, b) ==
    CASE sortType = "price-low" ->
             convertToRupees(a.price) - convertToRupees(b.price)
      [] sortType = "price-high" ->
             convertToRupees(b.price) - convertToRupees(a.price)
      [] sortType = "rating" -> ratingOrZero(b) - ratingOrZero(a)

RECURSIVE insertSorted(_, _, _)
\* x goes in front of the first element that compares greater than it
insertSorted(sorted, x, sortType) ==
    IF sorted = <<>> THEN <<x>>
    ELSE IF compareFn(sortType, Head(sorted), x) > 0 THEN <<x>> \o sorted
    ELSE <<Head(sorted)>> \o insertSorted(Tail(sorted), x, sortType)

RECURSIVE arraySort(_, _)
\* Array.prototype.sort with a comparator: a stable sort
arraySort(arr, sortType) ==
    IF arr = <<>> THEN <<>>
    ELSE insertSorted(arraySort(SubSeq(arr, 1, Len(arr) - 1), sortType),
                      arr[Len(arr)], sortType)

\* Array.prototype.sort sorts in place and returns its receiver: `returned` is
\* the value of the call, `products` the array passed in as the call leaves it
sortProducts(products, sortType) ==
    IF sortType \in {"price-low", "price-high", "rating"}
    THEN LET sorted == arraySort(products, sortType)
         IN  [returned |-> sorted, products |-> sorted]
    ELSE [returned |-> products, products |-> products]

\* handleSortChange sorting the displayed cards instead of the held set
handleSortChange_SortsDisplayed(st) ==
    IF Len(st.currentProducts) = 0 THEN st
    ELSE LET sortValue == st.sortSelect
             sortedProducts == sortProducts(st.productGrid, sortValue).returned
         IN  renderProducts(st, sortedProducts)

\* [...this.currentProducts] is a fresh array: the sort does not reach
\* this.currentProducts
handleSortChange(st) ==
    IF Len(st.currentProducts) = 0 THEN st
    ELSE LET sortValue == st.sortSelect
             sortedProducts == sortProducts(st.currentProducts, sortValue).returned
         IN  renderProducts(st, sortedProducts)

----------------------------------------------------------------------------
(* Rendering. Markup is a sequence of pieces: a piece of the code's        *)
(* template literals is one string of several characters, a character of   *)
(* an inserted text is a string of one character, and an entity written by *)
(* escapeHtml is one string ("&lt;").                                      *)

FullStarGlyph  == "U+2605"
\* the glyph generateStars writes for the half star
HalfStarGlyph  == "U+2606"
EmptyStarGlyph == "U+2606"

\* String.prototype.repeat
repeat(glyph, count) == [i \in 1..count |-> glyph]

\* rating is in tenths: Math.floor(rating) and rating % 1 >= 0.5
generateStars(rating) ==
    LET fullStars   == rating \div 10
        hasHalfStar == rating % 10 >= 5
        emptyStars  == StarCount - fullStars - (IF hasHalfStar THEN 1 ELSE 0)
    IN  repeat(FullStarGlyph, fullStars)
        \o (IF hasHalfStar THEN <<HalfStarGlyph>> ELSE <<>>)
        \o repeat(EmptyStarGlyph, emptyStars)

\* rating.toFixed(1) of a rating in tenths
toFixed1(rating) == <<ToString(rating \div 10), ".", ToString(rating % 10)>>

\* Intl.NumberFormat en-IN, INR, no fraction digits: the rupee price rounded
\* to a whole number (convertToRupees is in tenths of a rupee)
formatRupeePrice(usdPrice) ==
    <<"INR ", ToString((convertToRupees(usdPrice) + 5) \div 10)>>

\* div.textContent = text; return div.innerHTML: the serialisation writes
\* &, < and > as entities and every other character as it is
escapeHtml(text) ==
    [i \in DOMAIN text |->
        CASE text[i] = "&" -> "&amp;"
          [] text[i] = "<" -> "&lt;"
          [] text[i] = ">" -> "&gt;"
          [] OTHER -> text[i]]

NoImage == <<"https://via.placeholder.com/280x200?text=No+Image">>
NoDescription == <<"No description available">>

\* product.thumbnail || product.images?.[0] || placeholder
cardImage(product) ==
    IF product.thumbnail # <<>> THEN product.thumbnail
    ELSE IF product.images # <<>> /\ product.images[1] # <<>>
              /\ product.images[1][1] # <<>>
         THEN product.images[1][1]
         ELSE NoImage

\* the innerHTML createProductCard gives the card
createProductCard(product) ==
    LET rating == ratingOrZero(product)
        stars  == generateStars(rating)
    IN  <<"<img src=">> \o cardImage(product)
        \o <<" alt=">> \o product.title
        \o <<" class=product-image onerror=...>",
             "<div class=product-info><h3 class=product-title>">>
        \o escapeHtml(product.title)
        \o <<"</h3><div class=product-rating><span class=stars>">>
        \o stars
        \o <<"</span><span class=rating-text>(">> \o toFixed1(rating)
        \o <<")</span></div><p class=product-description>">>
        \o escapeHtml(IF product.description # <<>>
                      THEN product.description ELSE NoDescription)
        \o <<"</p><div class=product-price>">>
        \o formatRupeePrice(product.price)
        \o <<"</div></div>">>

\* images.filter(img => img && img.trim() !== '')
RECURSIVE validOnly(_)
validOnly(images) ==
    IF images = <<>> THEN <<>>
    ELSE (IF Head(images) # <<>> /\ trim(Head(images)) # <<>>
          THEN <<Head(images)>> ELSE <<>>) \o validOnly(Tail(images))

NoLargeImage == <<"https://via.placeholder.com/400x400?text=No+Image">>

\* the main image shows validImages[0]; thumbnails are made only when
\* there are two images or more, the first one active
populateImages(st, product) ==
    LET images      == IF product.images # <<>> THEN product.images[1]
                       ELSE <<product.thumbnail>>
        filtered    == validOnly(images)
        validImages == IF Len(filtered) = 0 THEN <<NoLargeImage>> ELSE filtered
    IN  [st EXCEPT !.productModal.mainImage = validImages[1],
                   !.productModal.thumbnails =
                       IF Len(validImages) > 1 THEN validImages ELSE <<>>,
                   !.productModal.activeThumbnail =
                       IF Len(validImages) > 1 THEN 1 ELSE 0]

\* the specs array of populateSpecifications; a value that is null or
\* absent is the empty text
specs(product) ==
    << [label |-> "SKU", value |-> product.sku],
       [label |-> "Weight",
        value |-> IF product.weight # 0
                  THEN <<ToString(product.weight), " kg">> ELSE <<>>],
       [label |-> "Dimensions",
        value |-> IF product.dimensions # <<>>
                  THEN <<ToString(product.dimensions[1].width), " x ",
                         ToString(product.dimensions[1].height), " x ",
                         ToString(product.dimensions[1].depth), " cm">>
                  ELSE <<>>],
       [label |-> "Warranty", value |-> product.warrantyInformation],
       [label |-> "Shipping", value |-> product.shippingInformation],
       [label |-> "Return Policy", value |-> product.returnPolicy],
       [label |-> "Minimum Order",
        value |-> IF product.minimumOrderQuantity # 0
                  THEN <<ToString(product.minimumOrderQuantity), " units">>
                  ELSE <<>>] >>

\* the innerHTML of one spec-item
specItem(spec) ==
    <<"<span class=spec-label>", spec.label, ":</span><span class=spec-value>">>
    \o escapeHtml(spec.value) \o <<"</span>">>

RECURSIVE specItems(_)
\* one spec-item for every spec that has a value
specItems(list) ==
    IF list = <<>> THEN <<>>
    ELSE (IF Head(list).value # <<>> THEN <<specItem(Head(list))>> ELSE <<>>)
         \o specItems(Tail(list))

populateSpecifications(st, product) ==
    [st EXCEPT !.productModal.specifications = specItems(specs(product))]

NoReviews == <<"<p>No reviews available for this product.</p>">>

\* new Date(review.date).toLocaleDateString: the date as a day number
reviewDate(date) == <<"day ", ToString(date)>>

\* review.rating || 0
reviewRatingOrZero(review) == IF review.rating = Absent THEN 0 ELSE review.rating

\* the innerHTML of one review-item
reviewItem(review) ==
    <<"<div class=review-header><div class=reviewer-info><div class=reviewer-name>">>
    \o escapeHtml(IF review.reviewerName # <<>>
                  THEN review.reviewerName ELSE <<"Anonymous">>)
    \o <<"</div><div class=review-date>">> \o reviewDate(review.date)
    \o <<"</div></div><div class=review-rating>">>
    \o generateStars(reviewRatingOrZero(review))
    \o <<"</div></div><div class=review-comment>">>
    \o escapeHtml(IF review.comment # <<>>
                  THEN review.comment ELSE <<"No comment provided">>)
    \o <<"</div>">>

populateReviews(st, product) ==
    [st EXCEPT !.productModal.reviews =
        IF Len(product.reviews) = 0 THEN <<NoReviews>>
        ELSE [i \in DOMAIN product.reviews |-> reviewItem(product.reviews[i])]]

\* title, description, rating and review count go in as textContent, the
\* stars as innerHTML. The brand, category, price, stock, availability and
\* discount elements are plain text too and are left out of the record
populateModal(st, product) ==
    LET rating == ratingOrZero(product)
        s1 == [st EXCEPT
                  !.productModal.title = product.title,
                  !.productModal.description =
                      IF product.description # <<>>
                      THEN product.description ELSE NoDescription,
                  !.productModal.ratingStars = generateStars(rating),
                  !.productModal.rating = toFixed1(rating),
                  !.productModal.reviewCount = Len(product.reviews)]
    IN  populateReviews(populateSpecifications(populateImages(s1, product),
                                               product), product)

\* document.body.style.overflow = 'hidden' stops the page from scrolling
openProductModal(st, product) ==
    [populateModal(st, product) EXCEPT !.productModal.hidden = FALSE,
                                       !.productModal.pageScrollLocked = TRUE]

closeModal(st) ==
    [st EXCEPT !.productModal.hidden = TRUE,
               !.productModal.pageScrollLocked = FALSE]

\* the click listener populateImages gives thumbnail number index
showThumbnail(st, index) ==
    [st EXCEPT !.productModal.mainImage = st.productModal.thumbnails[index],
               !.productModal.activeThumbnail = index]

----------------------------------------------------------------------------
(* Events                                                                  *)

Remove(seq, i) == SubSeq(seq, 1, i - 1) \o SubSeq(seq, i + 1, Len(seq))

\* the state st, as a predicate on the variables
Is(st) ==
    /\ errorMessageText  = st.errorMessageText
    /\ errorMessageShow  = st.errorMessageShow
    /\ inputFocused      = st.inputFocused
    /\ loadingHidden     = st.loadingHidden
    /\ headerHidden      = st.headerHidden
    /\ noResultsHidden   = st.noResultsHidden
    /\ errorHidden       = st.errorHidden
    /\ resultsTitle      = st.resultsTitle
    /\ resultsCount      = st.resultsCount
    /\ errorText         = st.errorText
    /\ productGrid       = st.productGrid
    /\ sortSelect        = st.sortSelect
    /\ currentSearchTerm = st.currentSearchTerm
    /\ currentProducts   = st.currentProducts
    /\ productModal      = st.productModal

Init ==
    /\ Is(Constructed)
    /\ pending = <<>>

\* 'input' on searchInput: the user edits the query
TypeInput ==
    /\ Becomes([clearError(State) EXCEPT !.inputFocused = TRUE])
    /\ UNCHANGED pending

\* the focus leaves searchInput
Blur ==
    /\ inputFocused
    /\ inputFocused' = FALSE
    /\ UNCHANGED <<errorMessageText, errorMessageShow, loadingHidden,
                   headerHidden, noResultsHidden, errorHidden, resultsTitle,
                   resultsCount, errorText, productGrid, sortSelect,
                   currentSearchTerm, currentProducts, productModal, pending>>

\* 'submit' on searchForm or Enter in searchInput, with raw in the search box:
\* handleSearch up to its suspension in searchProducts. The queries hold no
\* lone surrogate, so encodeURIComponent does not throw and fetch is called.
\* The code puts no limit on the suspended calls; MaxPending bounds them here.
\* handleSearch calling showLoading before it validates
handleSearch_LoadsFirst(raw) ==
    LET searchTerm == trim(raw)
        verdict == validateSearchInput(showLoading(State), searchTerm)
    IN  IF ~verdict.valid
        THEN /\ Becomes(verdict.state)
             /\ UNCHANGED pending
        ELSE /\ Len(pending) < MaxPending
             /\ Becomes(showLoading(clearError(
                    [verdict.state EXCEPT !.currentSearchTerm = searchTerm])))
             /\ pending' = Append(pending, searchTerm)

handleSearch(raw) ==
    LET searchTerm == trim(raw)
        verdict == validateSearchInput(State, searchTerm)
    IN  IF ~verdict.valid
        THEN /\ Becomes(verdict.state)
             /\ UNCHANGED pending
        ELSE /\ Len(pending) < MaxPending
             /\ Becomes(showLoading(clearError(
                    [verdict.state EXCEPT !.currentSearchTerm = searchTerm])))
             /\ pending' = Append(pending, searchTerm)

SubmitFrom(queries) == \E raw \in queries : handleSearch(raw)

Submit == SubmitFrom(Typed)

\* 'change' on sortSelect: the user picked another option (the event fires
\* only when the value changes; the listener tests nothing else)
ChangeSort(sortValue) ==
    /\ sortValue # sortSelect
    /\ Becomes(handleSortChange([State EXCEPT !.sortSelect = sortValue]))
    /\ UNCHANGED pending

SelectSort == \E sortValue \in SortOrders : ChangeSort(sortValue)

\* searchProducts from the point fetch settles: what it throws or returns
searchProducts(response) ==
    IF response.rejected
    THEN [threw |-> TRUE, message |-> TransportErrorMessage, data |-> NoData]
    ELSE IF ~(response.status >= 200 /\ response.status <= 299)
    THEN [threw |-> TRUE, message |-> HttpErrorMessage(response.status),
          data |-> NoData]
    ELSE IF ~response.parsable
    THEN [threw |-> TRUE, message |-> ParseErrorMessage, data |-> NoData]
    ELSE [threw |-> FALSE, message |-> <<>>, data |-> response.data]

\* the rest of handleSearch for a suspended call and the response it gets
handleSearchResumed(st, searchTerm, response) ==
    LET products == searchProducts(response)
    IN  IF products.threw
        THEN showErrorState(st, products.message)
        ELSE displayResults(st, products.data, searchTerm)

\* the request of the i-th suspended call settles. searchProducts suspends
\* twice (fetch, response.json()) and changes nothing between the two, so both
\* are one step here; calls resume in any order.
Resume(i, response) ==
    /\ Becomes(handleSearchResumed(State, pending[i], response))
    /\ pending' = Remove(pending, i)

SettleWith(responses) ==
    \E i \in 1..Len(pending) : \E response \in responses : Resume(i, response)

Settle == SettleWith(Responses)

Next ==
    \/ TypeInput
    \/ Blur
    \/ Submit
    \/ SelectSort
    \/ Settle

Spec == Init /\ [][Next]_vars

----------------------------------------------------------------------------
(* The validator's specification: every raw query up to MaxLen is          *)
(* submitted; the requests that get issued fail in transport               *)

SubmitRaw == SubmitFrom(RawQueries)

TransportFailure ==
    [rejected |-> TRUE, status |-> 0, parsable |-> FALSE, data |-> NoData]

Fail == SettleWith({TransportFailure})

ValidateNext ==
    \/ TypeInput
    \/ Blur
    \/ SubmitRaw
    \/ Fail

ValidateSpec == Init /\ [][ValidateNext]_vars

----------------------------------------------------------------------------
(* The sorter's specification: a search has just displayed any product     *)
(* list of up to MaxProducts products, and the user changes the sort order *)

\* the state a first search for searchTerm leaves when data answers it
Searched(searchTerm, data) ==
    handleSearchResumed(
        showLoading(clearError(
            [Constructed EXCEPT !.currentSearchTerm = searchTerm])),
        searchTerm,
        [rejected |-> FALSE, status |-> 200, parsable |-> TRUE, data |-> data])

SortInit ==
    /\ \E products \in ListsUpTo(MaxProducts) \ {<<>>} :
           Is(Searched(<<"a", "b">>,
                       [hasProducts |-> TRUE, products |-> products,
                        total |-> Len(products)]))
    /\ pending = <<>>

SortNext == SelectSort

SortSpec == SortInit /\ [][SortNext]_vars

----------------------------------------------------------------------------
(* The controller with a user who submits only when no request is pending  *)

SerialSubmit ==
    /\ pending = <<>>
    /\ Submit

SerialNext ==
    \/ TypeInput
    \/ Blur
    \/ SerialSubmit
    \/ SelectSort
    \/ Settle

SerialSpec == Init /\ [][SerialNext]_vars

----------------------------------------------------------------------------
(* The controller under the assumption that every request settles          *)
(* (the promise of fetch and of response.json() is settled in the end, and *)
(* the event loop then runs the rest of handleSearch), for a user with one *)
(* blank, one one-character and one valid query                            *)

LiveTyped == { <<" ">>, <<"a">>, <<" ", "a", "b", " ">> }

LiveSubmit == SubmitFrom(LiveTyped)

LiveNext ==
    \/ TypeInput
    \/ Blur
    \/ LiveSubmit
    \/ SelectSort
    \/ Settle

FairSpec == Init /\ [][LiveNext]_vars /\ WF_vars(Settle)

----------------------------------------------------------------------------
(* The controller with a catalog that holds a fixed product list for every *)
(* query: a request for searchTerm fails, or is answered with the products *)
(* the catalog holds for searchTerm. Searches overlap and settle in any    *)
(* order.                                                                  *)

CatalogQueries == { <<"a", "b">>, <<"c", " ", "d">>, <<"z", "z">> }

\* the products the catalog holds for a query
CatalogFor(searchTerm) ==
    CASE searchTerm = <<"a", "b">> -> <<ProductById(1), ProductById(2)>>
      [] searchTerm = <<"c", " ", "d">> ->
             <<ProductById(3), ProductById(2), ProductById(1)>>
      [] OTHER -> <<>>

\* the ways a request for searchTerm settles
Answers(searchTerm) ==
    {response \in Responses : ~Succeeded(response)}
    \cup { [rejected |-> FALSE, status |-> 200, parsable |-> TRUE,
            data |-> [hasProducts |-> TRUE,
                      products |-> CatalogFor(searchTerm),
                      total |-> Len(CatalogFor(searchTerm))]] }

CatalogTyped == { <<"a">>, <<" ", "a", "b", " ">> }
                \cup (CatalogQueries \ {<<"a", "b">>})

CatalogSubmit == SubmitFrom(CatalogTyped)

CatalogSettle ==
    \E i \in 1..Len(pending) :
        \E response \in Answers(pending[i]) : Resume(i, response)

CatalogNext ==
    \/ TypeInput
    \/ Blur
    \/ CatalogSubmit
    \/ SelectSort
    \/ CatalogSettle

CatalogSpec == Init /\ [][CatalogNext]_vars

----------------------------------------------------------------------------
(* The renderer's specification: a search has just displayed one product   *)
(* of RenderedProducts; the user opens and closes its detail view, picks   *)
(* thumbnails and changes the sort order                                   *)

\* 'click' on card number i
OpenModal(i) ==
    /\ i \in DOMAIN productGrid
    /\ Becomes(openProductModal(State, productGrid[i]))
    /\ UNCHANGED pending

ClickCard == \E i \in 1..MaxProducts : OpenModal(i)

\* 'click' on modalClose or on modalOverlay, which are inside the modal
ClickClose ==
    /\ ~productModal.hidden
    /\ Becomes(closeModal(State))
    /\ UNCHANGED pending

\* 'keydown' with the Escape key
PressEscape ==
    /\ Becomes(IF ~productModal.hidden THEN closeModal(State) ELSE State)
    /\ UNCHANGED pending

\* 'click' on a thumbnail of the open detail view
ClickThumbnail ==
    /\ ~productModal.hidden
    /\ \E index \in DOMAIN productModal.thumbnails :
           Becomes(showThumbnail(State, index))
    /\ UNCHANGED pending

RenderInit ==
    /\ \E product \in RenderedProducts :
           Is(Searched(<<"a", "b">>,
                       [hasProducts |-> TRUE, products |-> <<product>>,
                        total |-> 1]))
    /\ pending = <<>>

RenderNext ==
    \/ ClickCard
    \/ ClickClose
    \/ PressEscape
    \/ ClickThumbnail
    \/ SelectSort

RenderSpec == RenderInit /\ [][RenderNext]_vars

----------------------------------------------------------------------------
(* The view's displays                                                     *)

Displays == {"Loading", "Results", "NoResults", "ErrorState"}

\* the displays that are visible
Shown ==
    {d \in Displays :
        \/ d = "Loading" /\ ~loadingHidden
        \/ d = "Results" /\ ~headerHidden
        \/ d = "NoResults" /\ ~noResultsHidden
        \/ d = "ErrorState" /\ ~errorHidden}

Contains(message, part) == \E k \in 1..Len(message) : message[k] = part

----------------------------------------------------------------------------
(* C1: in no reachable state are two of the Loading, Results, NoResults    *)
(* and ErrorState displays visible at the same time.                       *)
C1_OneDisplayAtATime == Cardinality(Shown) <= 1

----------------------------------------------------------------------------
(* C2: a submit of a raw query whose trimmed length is 0 fails with the    *)
(* empty-query error, of trimmed length 1 with the too-short error, and of *)
(* trimmed length 2 or more succeeds, the trimmed string being the query   *)
(* the search is made with. The trimmed string is stated here without the  *)
(* code's trim: the part of raw between its leading and its trailing       *)
(* whitespace.                                                             *)
IsTrimOf(t, raw) ==
    \E i \in 0..Len(raw) : \E j \in 0..(Len(raw) - i) :
        /\ t = SubSeq(raw, i + 1, Len(raw) - j)
        /\ \A k \in 1..i : raw[k] \in Whitespace
        /\ \A k \in (Len(raw) - j + 1)..Len(raw) : raw[k] \in Whitespace
        /\ t # <<>> => t[1] \notin Whitespace /\ t[Len(t)] \notin Whitespace

Trimmed(raw) ==
    CHOOSE t \in {SubSeq(raw, i, j) : i \in 1..(Len(raw) + 1), j \in 0..Len(raw)} :
        IsTrimOf(t, raw)

ValidationOutcome(raw) ==
    LET t == Trimmed(raw)
    IN  /\ Len(t) = 0 =>
            /\ errorMessageShow' /\ errorMessageText' = EmptyQueryMessage
            /\ pending' = pending /\ currentSearchTerm' = currentSearchTerm
        /\ Len(t) = 1 =>
            /\ errorMessageShow' /\ errorMessageText' = TooShortMessage
            /\ pending' = pending /\ currentSearchTerm' = currentSearchTerm
        /\ Len(t) >= 2 =>
            /\ ~errorMessageShow'
            /\ currentSearchTerm' = t
            /\ pending' = Append(pending, t)

C2_Validation ==
    [][\A raw \in RawQueries : handleSearch(raw) => ValidationOutcome(raw)]_vars

\* a query with inner and outer whitespace was accepted trimmed, and a later
\* one-character query was refused
C2_Witness ==
    /\ pending # <<>>
    /\ currentSearchTerm = <<"a", "a">>
    /\ errorMessageShow
    /\ errorMessageText = TooShortMessage

----------------------------------------------------------------------------
(* The order the specification of the sorter asks for, stated without the  *)
(* code's sort: a permutation of the input, ordered by the key, equal keys *)
(* in input order.                                                         *)

KeyOf(order, product) ==
    CASE order = "price-low" -> product.price
      [] order = "price-high" -> 0 - product.price
      [] order = "rating" ->
             IF product.rating = Absent THEN 0 ELSE 0 - product.rating

Position(list, product) == CHOOSE k \in 1..Len(list) : list[k] = product

IsStableSortOf(out, in, order) ==
    IF order = "relevance" THEN out = in
    ELSE /\ Len(out) = Len(in)
         /\ {out[k] : k \in 1..Len(out)} = {in[k] : k \in 1..Len(in)}
         /\ \A i \in 1..Len(out) : \A j \in (i + 1)..Len(out) :
                /\ KeyOf(order, out[i]) <= KeyOf(order, out[j])
                /\ KeyOf(order, out[i]) = KeyOf(order, out[j])
                       => Position(in, out[i]) < Position(in, out[j])

----------------------------------------------------------------------------
(* C3: for a fixed fetched result set, every sort change leaves the held   *)
(* set as the server sent it and displays sort(held set, selected order),  *)
(* whatever was displayed before; relevance displays the server order.     *)
C3_SortFromFetched ==
    [][\A sortValue \in SortOrders :
          ChangeSort(sortValue) =>
              /\ currentProducts' = currentProducts
              /\ IsStableSortOf(productGrid', currentProducts, sortValue)
              /\ sortValue = "relevance" => productGrid' = currentProducts]_vars

\* price descending is selected for a set of three products, which it shows
\* in an order that is neither the server's nor that of another key
C3_Witness ==
    /\ sortSelect = "price-high"
    /\ Len(currentProducts) = 3
    /\ productGrid # currentProducts
    /\ ~IsStableSortOf(productGrid, currentProducts, "price-low")
    /\ ~IsStableSortOf(productGrid, currentProducts, "rating")

----------------------------------------------------------------------------
(* C4: what the sort displays is the stable sort of the held products by   *)
(* the selected key (price ascending, price descending, rating descending  *)
(* with an absent rating as 0), relevance the input order; for A(10, 4.2), *)
(* B(5, 4.8): price ascending [B, A], rating [B, A], relevance [A, B].     *)
C4_StableSort ==
    /\ IsStableSortOf(productGrid, currentProducts, sortSelect)
    /\ currentProducts = <<ProductById(1), ProductById(2)>> =>
           productGrid = IF sortSelect \in {"price-low", "rating"}
                         THEN <<ProductById(2), ProductById(1)>>
                         ELSE <<ProductById(1), ProductById(2)>>

\* sorted by rating, with a product without rating kept in front of a
\* product rated 0 that followed it in the input, behind the rated one
C4_Witness ==
    /\ sortSelect = "rating"
    /\ currentProducts = <<ProductById(3), ProductById(4), ProductById(1)>>
    /\ productGrid = <<ProductById(1), ProductById(3), ProductById(4)>>

----------------------------------------------------------------------------
(* C5: a sort change never changes which displays are visible, and it      *)
(* renders cards only when the view is in Results: in any other state it   *)
(* leaves the product grid as it was.                                      *)
C5_SortOnlyInResults ==
    [][\A sortValue \in SortOrders :
          ChangeSort(sortValue) =>
              /\ Shown' = Shown
              /\ Shown # {"Results"} => productGrid' = productGrid]_vars

----------------------------------------------------------------------------
(* C6: after every successful fetch the held result set is exactly the     *)
(* products of that response, in server order, also when it has none.      *)
C6_ResultSetReplaced ==
    [][\A i \in 1..Len(pending) : \A response \in Responses :
          (Resume(i, response) /\ Succeeded(response)) =>
              currentProducts' = response.data.products]_vars

----------------------------------------------------------------------------
(* C7: every failed request ends in ErrorState and in no other display,    *)
(* showing the underlying message: the status code when the status is      *)
(* outside the success range.                                              *)
C7_FailureEndsInErrorState ==
    [][\A i \in 1..Len(pending) : \A response \in Responses :
          (Resume(i, response) /\ ~Succeeded(response)) =>
              /\ Shown' = {"ErrorState"}
              /\ errorText' # <<>>
              /\ (~response.rejected /\ response.status # 200) =>
                     Contains(errorText', ToString(response.status))]_vars

----------------------------------------------------------------------------
(* C8: every successful response with an empty products list and total 0   *)
(* puts the view in NoResults, and in no other display.                    *)
C8_EmptyEndsInNoResults ==
    [][\A i \in 1..Len(pending) : \A response \in Responses :
          (/\ Resume(i, response)
           /\ Succeeded(response)
           /\ response.data.hasProducts
           /\ response.data.products = <<>>
           /\ response.data.total = 0) =>
              Shown' = {"NoResults"}]_vars

----------------------------------------------------------------------------
(* C9: at most one search request is outstanding at any time.              *)
C9_OneOutstanding == Len(pending) <= 1

----------------------------------------------------------------------------
(* C10: no failure leaves the widget stuck. Loading is not shown once no   *)
(* request is pending; provided requests settle, Loading is always left;   *)
(* and in every state (so after any validation or fetch failure) a valid   *)
(* submit is accepted, enters Loading and issues a new request.            *)
C10_NeverStuck ==
    /\ [](pending = <<>> => loadingHidden)
    /\ (~loadingHidden ~> loadingHidden)
    /\ [](Len(pending) < MaxPending =>
              \A raw \in LiveTyped : ENABLED handleSearch(raw))
    /\ [][\A raw \in LiveTyped :
             (handleSearch(raw) /\ Len(Trimmed(raw)) >= 2) =>
                 /\ Shown' = {"Loading"}
                 /\ pending' = Append(pending, Trimmed(raw))]_vars

\* a query was refused, a request failed, and a later submit is loading
C10_Witness ==
    /\ errorMessageText = TooShortMessage
    /\ errorText = HttpErrorMessage(500)
    /\ Shown = {"Loading"}
    /\ Len(pending) = 1

----------------------------------------------------------------------------
(* The markup of the view                                                  *)

\* the innerHTML of the cards in the grid
Cards == [i \in DOMAIN productGrid |-> createProductCard(productGrid[i])]

\* every piece of markup the view holds as innerHTML: the cards, and the
\* stars, the spec-items and the review-items of the detail view
InnerHTML ==
    {Cards[i] : i \in DOMAIN Cards}
    \cup {productModal.ratingStars}
    \cup {productModal.specifications[i] :
              i \in DOMAIN productModal.specifications}
    \cup {productModal.reviews[i] : i \in DOMAIN productModal.reviews}

----------------------------------------------------------------------------
(* C11: no character of a catalog text reaches innerHTML as markup, in a   *)
(* card or in the detail view: of the title, the description, the image    *)
(* URL, the specification values, the reviewer name and the comment, the   *)
(* characters <, > and & are there only as entities.                       *)
C11_CatalogTextEscaped ==
    \A markup \in InnerHTML :
        \A k \in DOMAIN markup : markup[k] \notin MarkupChars

----------------------------------------------------------------------------
(* C12: the stars of every displayed product and of the open detail view   *)
(* are StarCount symbols: floor(rating) full symbols, then, exactly when   *)
(* the fractional part is 0.5 or more, one half symbol that is neither the *)
(* full nor the empty symbol, then empty symbols.                          *)

\* stars is the star string the specification asks for a rating in tenths
IsStarStringOf(stars, rating) ==
    LET full == rating \div 10
        half == IF rating % 10 >= 5 THEN 1 ELSE 0
    IN  /\ Len(stars) = StarCount
        /\ \A k \in 1..full : stars[k] = FullStarGlyph
        /\ half = 1 => stars[full + 1] \notin {FullStarGlyph, EmptyStarGlyph}
        /\ \A k \in (full + half + 1)..StarCount : stars[k] = EmptyStarGlyph

C12_StarString ==
    /\ \A i \in DOMAIN productGrid :
           IsStarStringOf(generateStars(ratingOrZero(productGrid[i])),
                          ratingOrZero(productGrid[i]))
    /\ ~productModal.hidden =>
           \E i \in DOMAIN productGrid :
               IsStarStringOf(productModal.ratingStars,
                              ratingOrZero(productGrid[i]))

----------------------------------------------------------------------------
(* C13: sortProducts does not change the sequence it is given: for every   *)
(* product list (here the held result set of the sorter's specification)   *)
(* and every sort order, the array passed in has the same elements in the  *)
(* same order after the call as before it.                                 *)
C13_SortLeavesInput ==
    \A sortType \in SortOrders :
        sortProducts(currentProducts, sortType).products = currentProducts

----------------------------------------------------------------------------
(* C14: a submit of a raw query that fails validation (at most one of its  *)
(* characters is not whitespace, so its trimmed length is 0 or 1) issues   *)
(* no request and leaves the displays, the titles, the grid, the held      *)
(* result set, the current query, the selected sort order and the detail   *)
(* view as they are; it shows the inline error message and focuses the     *)
(* input.                                                                  *)

\* raw has at most one character that is not whitespace
FailsValidation(raw) ==
    Cardinality({k \in 1..Len(raw) : raw[k] \notin Whitespace}) <= 1

C14_FailedSubmitOnlyShowsError ==
    [][\A raw \in Typed :
          FailsValidation(raw) /\ handleSearch(raw) =>
              /\ pending' = pending
              /\ UNCHANGED <<loadingHidden, headerHidden, noResultsHidden,
                             errorHidden, resultsTitle, resultsCount,
                             errorText, productGrid, sortSelect,
                             currentSearchTerm, currentProducts,
                             productModal>>
              /\ errorMessageShow' /\ inputFocused'
              /\ errorMessageText' \in {EmptyQueryMessage, TooShortMessage}]_vars

\* a one-character query was refused while sorted results were on display
C14_Witness ==
    /\ errorMessageShow /\ inputFocused
    /\ errorMessageText = TooShortMessage
    /\ ~headerHidden /\ productGrid # <<>>
    /\ sortSelect = "rating"
    /\ pending = <<>>

----------------------------------------------------------------------------
(* C15: whenever Results is the display of the view, the cards are in the  *)
(* order sort(held result set, selected sort order) gives, the order       *)
(* stated without the code's sort.                                         *)
C15_DisplayedOrderIsSelectedOrder ==
    Shown = {"Results"} => IsStableSortOf(productGrid, currentProducts, sortSelect)

----------------------------------------------------------------------------
(* C16: whenever the results header is visible, the title names a query    *)
(* whose answer is the held result set, and the cards are a permutation of *)
(* that answer's products; searches overlap and their responses arrive in  *)
(* any order.                                                              *)

IsPermutationOf(out, in) ==
    /\ Len(out) = Len(in)
    /\ \A product \in Products :
           Cardinality({k \in 1..Len(out) : out[k] = product})
               = Cardinality({k \in 1..Len(in) : in[k] = product})

C16_TitleNamesSourceQuery ==
    ~headerHidden =>
        \E searchTerm \in CatalogQueries :
            /\ resultsTitle = <<"Search Results for ", searchTerm>>
            /\ currentProducts = CatalogFor(searchTerm)
            /\ IsPermutationOf(productGrid, CatalogFor(searchTerm))

\* two searches overlapped and the response to the older one was the last
\* to produce results: its query is in the title, its products are on
\* display sorted, and the latest submit was for another query
C16_Witness ==
    /\ ~headerHidden
    /\ resultsTitle = <<"Search Results for ", <<"a", "b">> >>
    /\ currentSearchTerm = <<"c", " ", "d">>
    /\ productGrid = <<ProductById(2), ProductById(1)>>
    /\ pending = <<>>

====
